---- MODULE Spec2Model ----
(***************************************************************************)
(* Model of the pruning pipeline of smilepruning: main.py (main_worker,    *)
(* finetune, train, apply_mask_forward, save_model) and                    *)
(* pruner/l1_pruner.py (Pruner.prune, approximate_isometry_optimize,       *)
(* exact_isometry_based_on_existing_weights).                              *)
(*                                                                         *)
(* Tensors are records [shape, data]: data is the row-major flattening.    *)
(* Weight values and learning rates are integers; NaN and infinities are   *)
(* outside the model.                                                      *)
(***************************************************************************)
EXTENDS Integers, Sequences, FiniteSets, TLC

\* ------------------------------------------------------------------ bounds
MaxEpochs == 2      \* args.epochs of the modelled runs
MaxBatches == 2     \* len(train_loader) of the modelled runs
NSeeds == 2         \* distinct outcomes of a random (re)initialisation draw
MaxApply == 2       \* successive apply_mask_forward calls of the function-level runs
MaxFnSteps == 2     \* optimizer steps of the function-level runs

\* ------------------------------------------------------- program constants
N_ITER == 10000     \* l1_pruner.py:69, n_iter passed by Pruner.prune

\* ----------------------------------------------------------------- tensors
RECURSIVE Prod(_)
Prod(s) == IF s = <<>> THEN 1 ELSE Head(s) * Prod(Tail(s))

RECURSIVE SumSeq(_)
SumSeq(s) == IF s = <<>> THEN 0 ELSE Head(s) + SumSeq(Tail(s))

Abs(x) == IF x < 0 THEN -x ELSE x

Sign(x) == IF x < 0 THEN -1 ELSE IF x > 0 THEN 1 ELSE 0

Numel(shape) == Prod(shape)

\* a shape right-aligned in four dimensions (torch broadcasting aligns trailing dims)
Pad4(s) == [d \in 1..4 |-> IF d + Len(s) - 4 >= 1 THEN s[d + Len(s) - 4] ELSE 1]

\* torch broadcasting rule: trailing dimensions are equal or one of them is 1
Broadcastable(a, b) ==
    \A d \in 1..4 : Pad4(a)[d] = Pad4(b)[d] \/ Pad4(a)[d] = 1 \/ Pad4(b)[d] = 1

BroadcastShape(a, b) ==
    LET n == IF Len(a) > Len(b) THEN Len(a) ELSE Len(b)
        full == [d \in 1..4 |-> IF Pad4(a)[d] = 1 THEN Pad4(b)[d] ELSE Pad4(a)[d]]
    IN  [d \in 1..n |-> full[d + 4 - n]]

\* 0-based flat offset into a tensor of shape s of the element that a result
\* element with 0-based flat offset k (result shape r) reads under broadcasting
OperandOffset(k, r, s) ==
    LET R == Pad4(r)
        S == Pad4(s)
        i4 == k % R[4]
        i3 == (k \div R[4]) % R[3]
        i2 == (k \div (R[4] * R[3])) % R[2]
        i1 == k \div (R[4] * R[3] * R[2])
        j1 == IF S[1] = 1 THEN 0 ELSE i1
        j2 == IF S[2] = 1 THEN 0 ELSE i2
        j3 == IF S[3] = 1 THEN 0 ELSE i3
        j4 == IF S[4] = 1 THEN 0 ELSE i4
    IN  ((j1 * S[2] + j2) * S[3] + j3) * S[4] + j4

\* torch.mul(a, b) of two broadcastable tensors: a new tensor
TorchMul(a, b) ==
    LET r == BroadcastShape(a.shape, b.shape)
    IN  [shape |-> r,
         data  |-> [k \in 1..Numel(r) |->
                      a.data[OperandOffset(k - 1, r, a.shape) + 1]
                    * b.data[OperandOffset(k - 1, r, b.shape) + 1]]]

\* w.view(w.size(0), -1): the [n_filter, -1] flattening, same data
Flatten2D(t) ==
    [shape |-> <<t.shape[1], Numel(t.shape) \div t.shape[1]>>, data |-> t.data]

\* element (i, j), 1-based, of a 2-D tensor
At(t, i, j) == t.data[(i - 1) * t.shape[2] + j]

\* torch.matmul(w_, w_.t()) - identity, for a 2-D w_ of shape [n, r]
GramMinusEye(t) ==
    [i \in 1..t.shape[1] |-> [j \in 1..t.shape[1] |->
        SumSeq([k \in 1..t.shape[2] |-> At(t, i, k) * At(t, j, k)])
        - (IF i = j THEN 1 ELSE 0)]]

\* sign of d MSELoss(w_ w_^T, I) / d w_[i][j] = (4 / n^2) * ((w_ w_^T - I) w_)[i][j]
GradSign(t, i, j) ==
    LET E == GramMinusEye(t)
    IN  Sign(SumSeq([k \in 1..t.shape[1] |-> E[i][k] * At(t, k, j)]))

\* ascending sequence of a finite set of integers
RECURSIVE SortedSeq(_)
SortedSeq(S) ==
    IF S = {} THEN <<>>
    ELSE LET m == CHOOSE x \in S : \A y \in S : x <= y
         IN  <<m>> \o SortedSeq(S \ {m})

\* ------------------------------------------------------------------ models
\* A model is the sequence of its named modules in named_modules() order; a
\* module is [name, kind, weight].  Three base networks:
\*   mlp     fc1 Linear 2x2, fc2 Linear 1x2
\*   cnn1x1  conv1 Conv2d 2x1x1x1, bn1 BatchNorm2d 2, fc Linear 1x2
\*   cnn2x2  conv1 Conv2d 1x1x2x2, fc Linear 1x1
\* and, for the runs of the selector alone,
\*   cnn3    conv1 Conv2d 2x1x1x1, bn1 BatchNorm2d 2, conv2 Conv2d 4x2x1x1, fc Linear 2x4
ArchNames == {"mlp", "cnn1x1", "cnn2x2"}

SelArchNames == ArchNames \cup {"cnn3"}

ArchLayers(arch) ==
    IF arch = "mlp" THEN
        << [name |-> "fc1", kind |-> "Linear", shape |-> <<2, 2>>],
           [name |-> "fc2", kind |-> "Linear", shape |-> <<1, 2>>] >>
    ELSE IF arch = "cnn1x1" THEN
        << [name |-> "conv1", kind |-> "Conv2d", shape |-> <<2, 1, 1, 1>>],
           [name |-> "bn1", kind |-> "BatchNorm2d", shape |-> <<2>>],
           [name |-> "fc", kind |-> "Linear", shape |-> <<1, 2>>] >>
    ELSE IF arch = "cnn3" THEN
        << [name |-> "conv1", kind |-> "Conv2d", shape |-> <<2, 1, 1, 1>>],
           [name |-> "bn1", kind |-> "BatchNorm2d", shape |-> <<2>>],
           [name |-> "conv2", kind |-> "Conv2d", shape |-> <<4, 2, 1, 1>>],
           [name |-> "fc", kind |-> "Linear", shape |-> <<2, 4>>] >>
    ELSE
        << [name |-> "conv1", kind |-> "Conv2d", shape |-> <<1, 1, 2, 2>>],
           [name |-> "fc", kind |-> "Linear", shape |-> <<1, 1>>] >>

\* value k of module l of a pretrained network, one network per seed (all non-zero)
PresetVal(seed, l, k) ==
    LET v == (k + l + seed) % 3
    IN  IF v = 0 THEN 2 ELSE IF v = 1 THEN -1 ELSE 1

BaseModel(arch, seed) ==
    LET L == ArchLayers(arch)
    IN  [l \in 1..Len(L) |->
            [name |-> L[l].name, kind |-> L[l].kind,
             weight |-> [shape |-> L[l].shape,
                         data |-> [k \in 1..Numel(L[l].shape) |-> PresetVal(seed, l, k)]]]]

\* isinstance(m, (nn.Conv2d, nn.Linear))
IsConvOrLinear(m) == m.kind \in {"Conv2d", "Linear"}

PrunableIdx(model) == {l \in 1..Len(model) : IsConvOrLinear(model[l])}

\* the Conv/Linear module feeding module l (0: module l reads the network input)
Producer(model, l) ==
    IF \E j \in PrunableIdx(model) : j < l
    THEN CHOOSE j \in PrunableIdx(model) : j < l /\ \A i \in PrunableIdx(model) : i < l => i <= j
    ELSE 0

IsClassifier(model, l) == l \in PrunableIdx(model) /\ \A j \in PrunableIdx(model) : j <= l

\* ----------------------------------------- scoring and selection (MetaPruner)
\* L1 score of each weight group of a module: a scalar weight (wg = "weight")
\* or an output filter (any other wg)
GroupScores(m, wg) ==
    IF wg = "weight"
    THEN [k \in 1..Numel(m.weight.shape) |-> Abs(m.weight.data[k])]
    ELSE LET f == Flatten2D(m.weight)
         IN  [i \in 1..f.shape[1] |-> SumSeq([j \in 1..f.shape[2] |-> Abs(At(f, i, j))])]

\* the target keep-count rounded down: floor(n * num / den)
TargetCount_floor(n, ratio) == (n * ratio[1]) \div ratio[2]

\* the target keep-count of n groups at keep-ratio num/den: ceil(n * num / den)
TargetCount(n, ratio) == (n * ratio[1] + ratio[2] - 1) \div ratio[2]

\* the selector without the force-keep rule
KeepCount_noforce(n, ratio) == TargetCount(n, ratio)

\* groups to keep of n at keep-ratio num/den: the target, or 1 if the target is 0
KeepCount(n, ratio) ==
    IF TargetCount(n, ratio) = 0 THEN 1 ELSE TargetCount(n, ratio)

\* the n highest-scored groups, equal scores broken by descending index
KeptGroups_lastTie(scores, n) ==
    {i \in DOMAIN scores :
        Cardinality({j \in DOMAIN scores :
            scores[j] > scores[i] \/ (scores[j] = scores[i] /\ j > i)}) < n}

\* the n highest-scored groups, equal scores broken by ascending index
KeptGroups(scores, n) ==
    {i \in DOMAIN scores :
        Cardinality({j \in DOMAIN scores :
            scores[j] > scores[i] \/ (scores[j] = scores[i] /\ j < i)}) < n}

\* _get_kept_wg_L1: per module, the ascending kept group indices
RECURSIVE KeptWg(_, _, _, _)
KeptWg(model, wg, ratio, l) ==
    LET m == model[l]
        all == 1..(IF wg = "weight" THEN Numel(m.weight.shape) ELSE m.weight.shape[1])
    IN  IF ~IsConvOrLinear(m)
        THEN (IF wg = "weight" \/ Producer(model, l) = 0 THEN SortedSeq(all)
              ELSE KeptWg(model, wg, ratio, Producer(model, l)))
        ELSE IF wg # "weight" /\ IsClassifier(model, l) THEN SortedSeq(all)
        ELSE SortedSeq(KeptGroups(GroupScores(m, wg), KeepCount(Cardinality(all), ratio)))

get_kept_wg_L1(model, wg, ratio) == [l \in 1..Len(model) |-> KeptWg(model, wg, ratio, l)]

\* the number of weight groups of module l: scalar weights, or output filters
NumGroups(model, wg, l) ==
    IF wg = "weight" THEN Numel(model[l].weight.shape) ELSE model[l].weight.shape[1]

\* the layers the selector ranks itself: Conv/Linear, but in structured mode not the classifier
Selected(model, wg) ==
    {l \in PrunableIdx(model) : wg = "weight" \/ ~IsClassifier(model, l)}

\* the layers whose target keep-count is 0: one group is force-kept, and reported
ForcedLayers(model, wg, ratio) ==
    {l \in Selected(model, wg) : TargetCount(NumGroups(model, wg, l), ratio) = 0}

PrunedOf(model, wg, kept) ==
    [l \in 1..Len(model) |->
        SortedSeq((1..(IF wg = "weight" THEN Numel(model[l].weight.shape)
                       ELSE model[l].weight.shape[1]))
                  \ {kept[l][i] : i \in 1..Len(kept[l])})]

SeqToSet(s) == {s[i] : i \in 1..Len(s)}

\* ------------------------------------------------- reconstruction (MetaPruner)
\* unstructured: the Mask, one 0/1 tensor shaped like each Conv/Linear weight
BuildMask(model, kept) ==
    LET P == SortedSeq(PrunableIdx(model))
    IN  [i \in 1..Len(P) |->
            [name |-> model[P[i]].name,
             t |-> [shape |-> model[P[i]].weight.shape,
                    data |-> [k \in 1..Numel(model[P[i]].weight.shape) |->
                                IF k \in SeqToSet(kept[P[i]]) THEN 1 ELSE 0]]]]

\* structured reconstruction that slices the outputs only: the inputs stay as they were
SliceWeight_outputs(model, kept, l) ==
    LET w == model[l].weight
        ok == kept[l]
        row == Numel(w.shape) \div w.shape[1]
        ns == <<Len(ok)>> \o SubSeq(w.shape, 2, Len(w.shape))
    IN  [shape |-> ns,
         data |-> [k \in 1..Numel(ns) |->
                      w.data[(ok[((k - 1) \div row) + 1] - 1) * row + ((k - 1) % row) + 1]]]

\* structured: a module's weight sliced to the kept outputs and to its producer's kept outputs
SliceWeight(model, kept, l) ==
    LET w == model[l].weight
        ok == kept[l]
        p == Producer(model, l)
        rest == IF Len(w.shape) > 2 THEN SubSeq(w.shape, 3, Len(w.shape)) ELSE <<>>
        inner == Prod(rest)
    IN  IF ~IsConvOrLinear(model[l])
        THEN [shape |-> <<Len(ok)>>, data |-> [a \in 1..Len(ok) |-> w.data[ok[a]]]]
        ELSE LET ik == IF p = 0 THEN SortedSeq(1..w.shape[2]) ELSE kept[p]
                 ns == <<Len(ok), Len(ik)>> \o rest
             IN  [shape |-> ns,
                  data |-> [k \in 1..Numel(ns) |->
                      LET e == (k - 1) % inner
                          b == ((k - 1) \div inner) % Len(ik)
                          a == (k - 1) \div (inner * Len(ik))
                      IN  w.data[((ok[a + 1] - 1) * w.shape[2] + (ik[b + 1] - 1)) * inner + e + 1]]]

BuildNewModel(model, kept) ==
    [l \in 1..Len(model) |->
        [name |-> model[l].name, kind |-> model[l].kind, weight |-> SliceWeight(model, kept, l)]]


\* ----------------------------------------------------------- the Mask (dict)
\* A mask dict is a sequence of [name, t]; lookups are by module name.
MaskHas(m, name) == \E i \in 1..Len(m) : m[i].name = name

MaskGet(m, name) == m[CHOOSE i \in 1..Len(m) : m[i].name = name].t

\* m.weight.data.mul_(mask[name]) needs the product to have the weight's own shape
MulInPlaceOk(w, t) == Broadcastable(w.shape, t.shape) /\ BroadcastShape(w.shape, t.shape) = w.shape

\* apply_mask_forward can run: every module named in the mask can be multiplied in place
ApplyMaskOk(mdl, m) ==
    \A l \in 1..Len(mdl) : MaskHas(m, mdl[l].name) => MulInPlaceOk(mdl[l].weight, MaskGet(m, mdl[l].name))

\* apply_mask_forward rescaling the kept entries: mul_(mask[name] * 2)
ApplyMaskForward_rescaled(mdl, m) ==
    [l \in 1..Len(mdl) |->
        IF MaskHas(m, mdl[l].name)
        THEN [mdl[l] EXCEPT !.weight.data =
                [k \in 1..Numel(mdl[l].weight.shape) |->
                    2 * TorchMul(mdl[l].weight, MaskGet(m, mdl[l].name)).data[k]]]
        ELSE mdl[l]]

\* apply_mask_forward: for name, m in model.named_modules(): if name in mask: m.weight.data.mul_(mask[name])
ApplyMaskForward(mdl, m) ==
    [l \in 1..Len(mdl) |->
        IF MaskHas(m, mdl[l].name)
        THEN [mdl[l] EXCEPT !.weight = TorchMul(mdl[l].weight, MaskGet(m, mdl[l].name))]
        ELSE mdl[l]]

\* every entry of mdl that the mask m marks 0 holds 0
MaskedEntriesZero(mdl, m) ==
    \A l \in 1..Len(mdl) : MaskHas(m, mdl[l].name) =>
        LET t == MaskGet(m, mdl[l].name)
        IN  /\ t.shape = mdl[l].weight.shape
            /\ \A k \in 1..Numel(t.shape) : t.data[k] = 0 => mdl[l].weight.data[k] = 0

\* ------------------------------------------------ reinitialisation (utils)
\* a random draw of a variance-scaling initialiser: no entry is 0
DrawVal(seed, l, k) == IF (k + l + seed) % 2 = 0 THEN 1 ELSE -1

\* _weights_init applied to every module: all entries are redrawn
WeightsInit(mdl, seed) ==
    [l \in 1..Len(mdl) |->
        [mdl[l] EXCEPT !.weight.data = [k \in 1..Numel(mdl[l].weight.shape) |-> DrawVal(seed, l, k)]]]

\* entry (i, j) of the p-th n x r matrix with orthonormal rows (n <= r) or columns
OrthEntry(n, r, p, i, j) ==
    IF n <= r THEN (IF j = ((i - 1 + p) % r) + 1 THEN 1 ELSE 0)
    ELSE (IF i = ((j - 1 + p) % n) + 1 THEN 1 ELSE 0)

OrthData(shape, p) ==
    LET n == shape[1]
        r == Numel(shape) \div shape[1]
    IN  [k \in 1..Numel(shape) |-> OrthEntry(n, r, p, ((k - 1) \div r) + 1, ((k - 1) % r) + 1)]

\* _weights_init_orthogonal applied to every module: 'orthogonal_' for Conv/FC
WeightsInitOrthogonal(mdl, seed) ==
    [l \in 1..Len(mdl) |->
        IF IsConvOrLinear(mdl[l])
        THEN [mdl[l] EXCEPT !.weight.data = OrthData(mdl[l].weight.shape, seed)]
        ELSE [mdl[l] EXCEPT !.weight.data = [k \in 1..Numel(mdl[l].weight.shape) |-> 1]]]

\* orthogonalize_weights(w): the matrix with orthonormal rows/columns nearest to
\* the flattened w, of w's shape (nearest among the signed OrthData candidates)
OrthogonalizeWeights(w) ==
    LET n == w.shape[1]
        r == Numel(w.shape) \div w.shape[1]
        P == 0..((IF n <= r THEN r ELSE n) - 1)
        cand(p) == [k \in 1..Numel(w.shape) |->
                        OrthData(w.shape, p)[k] * (IF w.data[k] < 0 THEN -1 ELSE 1)]
        fit(p) == SumSeq([k \in 1..Numel(w.shape) |-> cand(p)[k] * w.data[k]])
        best == CHOOSE p \in P : \A q \in P : fit(q) < fit(p) \/ (fit(q) = fit(p) /\ p <= q)
    IN  [shape |-> w.shape, data |-> cand(best)]

\* exact_isometry_based_on_existing_weights(model)
ExactIsometry(mdl) ==
    [l \in 1..Len(mdl) |->
        IF IsConvOrLinear(mdl[l])
        THEN [mdl[l] EXCEPT !.weight.data = OrthogonalizeWeights(mdl[l].weight).data]
        ELSE mdl[l]]

\* reinit_model(model, args, mask): the strategy acts on the kept weights only
ReinitModel(mdl, reinit, m, seed) ==
    LET fresh == IF reinit = "default" THEN WeightsInit(mdl, seed)
                 ELSE IF reinit = "orth" THEN WeightsInitOrthogonal(mdl, seed)
                 ELSE ExactIsometry(mdl)
    IN  [l \in 1..Len(mdl) |->
            IF MaskHas(m, mdl[l].name)
            THEN [mdl[l] EXCEPT !.weight.data =
                    [k \in 1..Numel(mdl[l].weight.shape) |->
                        IF MaskGet(m, mdl[l].name).data[k] = 0 THEN mdl[l].weight.data[k]
                        ELSE fresh[l].weight.data[k]]]
            ELSE fresh[l]]

SupportedReinit == {"default", "orth", "exact_isometry", "approximate_isometry"}

\* ------------------------------------- approximate_isometry_optimize: one step
\* optim.step() of an Adam optimizer that has taken no step yet: every entry
\* moves by lr against the sign of its gradient
AdamFirstStep(t, lr) ==
    [t EXCEPT !.data = [k \in 1..Numel(t.shape) |->
        t.data[k] - lr * GradSign(t, ((k - 1) \div t.shape[2]) + 1, ((k - 1) % t.shape[2]) + 1)]]


\* ------------------------------------------------------------------- state
VARIABLES
    args,         \* the configuration read by main_worker and Pruner.prune
    heap,         \* the model objects; a model variable holds a position in heap
    model,        \* main_worker's variable model
    pruner,       \* main_worker's variable pruner (None or the Pruner object)
    mask,         \* the module-level global mask of main.py
    prune_state,  \* main_worker's variable prune_state
    pc,           \* position of the run
    error,        \* the exception that ended the run, and where it was raised
    ai,           \* approximate_isometry_optimize: module, iteration, w_, optimizer
    ft,           \* finetune / train: epochs, batches, learning rates
    saved,        \* the checkpoint records written by save_model
    hist,         \* history: mask uses per site, tensors written back by reinit
    vl,           \* validate: its local variables and each module's training flag
    fb,           \* finetune called on its own: its accuracy bookkeeping
    wk            \* the worker processes of one node and the files they write

vars == <<args, heap, model, pruner, mask, prune_state, pc, error, ai, ft, saved, hist, vl, fb, wk>>

ReinitNames == {""} \cup SupportedReinit \cup {"kaiming"}

KeepRatios == {<<1, 2>>}

MaskUndef == [st |-> "undef", m |-> <<>>]
MaskNone == [st |-> "None", m |-> <<>>]
MaskDict(m) == [st |-> "dict", m |-> m]

PrunerNone == [st |-> "None", model |-> 0, kept_wg |-> <<>>, pruned_wg |-> <<>>, mask |-> <<>>,
               ratio |-> <<>>, forced |-> {}]

NoError == [type |-> "", site |-> ""]

EmptyTensor == [shape |-> <<>>, data |-> <<>>]

AiIdle == [obj |-> 0, l |-> 0, i |-> 0, n_iter |-> 0, lr |-> 0, w_ |-> EmptyTensor,
           shared |-> FALSE, optSteps |-> 0, mask |-> MaskNone, ret |-> ""]

FtIdle == [start_epoch |-> 0, epochs |-> 0, nbatch |-> 0, sched |-> <<>>, epoch |-> 0,
           batch |-> 0, lr |-> 0, last_lr |-> 0, steps |-> 0]

HistEmpty == [maskLog |-> {}, written |-> {}, before |-> <<>>, loaded |-> {},
              applied |-> 0, once |-> <<>>, stages |-> <<>>]

Configs ==
    {a \in [method : {"L1", ""}, wg : {"weight", "filter"}, reinit : ReinitNames,
            resume_path : {"", "ckpt"}, directly_ft_weights : {"", "ckpt"},
            arch : ArchNames, seed : 1..NSeeds, lr_AI : {1, 2},
            n_iter_AI : {N_ITER, N_ITER \div 2}] :
        /\ a.method = "" => (a.resume_path = "" /\ a.directly_ft_weights = "")
        /\ a.reinit # "approximate_isometry" => (a.lr_AI = 1 /\ a.n_iter_AI = N_ITER)}

\* no call of finetune on its own; an empty sequence is a local not yet bound
FbIdle ==
    [start_epoch |-> 0, epochs |-> 0, epoch |-> 0, test_trainset |-> FALSE, given |-> 0,
     best_acc1 |-> 0, best_acc1_epoch |-> 0, best_loss_train |-> <<>>, best_loss_test |-> <<>>,
     acc1 |-> 0, loss_train |-> 0, loss_test |-> 0,
     acc1_list |-> <<>>, loss_train_list |-> <<>>, loss_test_list |-> <<>>,
     is_best |-> <<>>, best |-> <<>>]

\* no worker processes spawned
WkIdle ==
    [multiprocessing_distributed |-> FALSE, ngpus_per_node |-> 0, node |-> 0,
     epochs |-> 0, decay |-> 0, shared_path |-> FALSE, w |-> <<>>, wrote |-> {}]

\* no call of validate in progress
VlIdle ==
    [training |-> <<>>, given |-> 0, model |-> 0, model_ensemble |-> <<>>,
     train_state |-> FALSE, before |-> FALSE, noisy_model_ensemble |-> FALSE,
     model_noise_num |-> 0, nbatch |-> 0, i |-> 0, calls |-> 0]

Init ==
    /\ args \in Configs
    /\ heap = << BaseModel(args.arch, args.seed) >>
    /\ model = 1
    /\ pruner = PrunerNone
    /\ mask = MaskUndef
    /\ prune_state = ""
    /\ pc = "start"
    /\ error = NoError
    /\ ai = AiIdle
    /\ ft = FtIdle
    /\ saved = {}
    /\ hist = HistEmpty
    /\ vl = VlIdle
    /\ fb = FbIdle
    /\ wk = WkIdle

Raise(type, site) == pc' = "raised" /\ error' = [type |-> type, site |-> site]

\* ------------------------------------------ checkpoint files given to the run
\* What an earlier run of this program on the same network wrote: the
\* end-of-epoch / learning-rate checkpoint ("finetune"), the just-finished-prune
\* checkpoint ("pruned"), or a checkpoint of another pruner that stopped while
\* regularising ("update_reg").
CkptModel(wgPrev) ==
    LET base == BaseModel(args.arch, args.seed)
        kept == get_kept_wg_L1(base, wgPrev, <<1, 2>>)
    IN  IF wgPrev = "weight" THEN ApplyMaskForward(base, BuildMask(base, kept))
        ELSE BuildNewModel(base, kept)

CkptMask(wgPrev) ==
    LET base == BaseModel(args.arch, args.seed)
    IN  IF wgPrev = "weight" THEN BuildMask(base, get_kept_wg_L1(base, wgPrev, <<1, 2>>)) ELSE <<>>

CkptKeys(kind, wgPrev) ==
    (IF kind = "pruned"
     THEN {"arch", "model", "state_dict", "acc1", "acc5", "ExpID", "pruned_wg", "kept_wg"}
     ELSE {"epoch", "arch", "model", "state_dict", "acc1", "acc5", "optimizer", "ExpID", "prune_state"})
    \cup (IF wgPrev = "weight" THEN {"mask"} ELSE {})

CkptFiles ==
    {[kind |-> kind, wg |-> wgPrev, keys |-> CkptKeys(kind, wgPrev),
      prune_state |-> (IF kind = "pruned" THEN "" ELSE kind),
      model |-> CkptModel(wgPrev), mask |-> CkptMask(wgPrev), epoch |-> 1] :
        kind \in {"finetune", "pruned", "update_reg"}, wgPrev \in {"weight", "filter"}}


\* ------------------------------------------------------- main_worker: loading
LogMask(site, used) == [hist EXCEPT !.maskLog = @ \cup {[site |-> site, used |-> used]}]

\* the stages of the run, in the order they were completed
LogStage(h, stage) == [h EXCEPT !.stages = Append(@, stage)]

LogLoaded(via, f) ==
    [hist EXCEPT !.loaded = @ \cup {[via |-> via, keys |-> f.keys, mask |-> f.mask]}]

\* main.py 329 without the test of prune_state: the pruning block always runs
AfterLoad_always(ps) == "prune_score"

\* main.py 329: if prune_state in ['prune']
AfterLoad(ps) == IF ps = "prune" THEN "prune_score" ELSE "reinit"

\* main.py 272-290: pruner = None; if args.method: prune_state = 'prune'
Start ==
    /\ pc = "start"
    /\ pc' = IF args.method # "" THEN "resume" ELSE "reinit"
    /\ prune_state' = IF args.method # "" THEN "prune" ELSE prune_state
    /\ UNCHANGED <<args, heap, model, pruner, mask, error, ai, ft, saved, hist>>
    /\ UNCHANGED vl
    /\ UNCHANGED fb
    /\ UNCHANGED wk

\* main.py 293-313: resume a model
LoadResume ==
    /\ pc = "resume"
    /\ IF args.resume_path = ""
       THEN /\ pc' = "directly_ft"
            /\ UNCHANGED <<heap, model, prune_state, error, ft, hist>>
       ELSE \E f \in CkptFiles :
            IF "prune_state" \notin f.keys
            THEN /\ Raise("KeyError", "resume")
                 /\ UNCHANGED <<heap, model, prune_state, ft, hist>>
            ELSE IF f.prune_state = "finetune"
            THEN /\ heap' = Append(heap, f.model)
                 /\ model' = Len(heap) + 1
                 /\ prune_state' = f.prune_state
                 /\ ft' = [ft EXCEPT !.start_epoch = f.epoch]
                 /\ hist' = LogLoaded("resume_path", f)
                 /\ pc' = "directly_ft"
                 /\ UNCHANGED error
            ELSE /\ prune_state' = f.prune_state
                 /\ Raise("NotImplementedError", "resume")
                 /\ UNCHANGED <<heap, model, ft, hist>>
    /\ UNCHANGED <<args, pruner, mask, ai, saved>>
    /\ UNCHANGED vl
    /\ UNCHANGED fb
    /\ UNCHANGED wk

\* main.py 315-327: finetune a model; the mask is restored if the file holds one
DirectlyFt ==
    /\ pc = "directly_ft"
    /\ IF args.directly_ft_weights = ""
       THEN /\ pc' = AfterLoad(prune_state)
            /\ UNCHANGED <<heap, model, prune_state, mask, hist>>
       ELSE \E f \in CkptFiles :
            /\ model' = Len(heap) + 1
            /\ prune_state' = "finetune"
            /\ pc' = "reinit"
            /\ IF "mask" \in f.keys
               THEN /\ mask' = MaskDict(f.mask)
                    /\ heap' = Append(heap, ApplyMaskForward(f.model, f.mask))
                    /\ hist' = [LogLoaded("directly_ft_weights", f) EXCEPT
                                    !.maskLog = @ \cup {[site |-> "directly_ft", used |-> TRUE]}]
               ELSE /\ heap' = Append(heap, f.model)
                    /\ hist' = [LogLoaded("directly_ft_weights", f) EXCEPT
                                    !.maskLog = @ \cup {[site |-> "directly_ft", used |-> FALSE]}]
                    /\ UNCHANGED mask
    /\ UNCHANGED <<args, pruner, error, ai, ft, saved>>
    /\ UNCHANGED vl
    /\ UNCHANGED fb
    /\ UNCHANGED wk

\* ----------------------------------------------------------- Pruner.prune()
\* main.py 348 and l1_pruner.py 51: the Pruner is built on model; _get_kept_wg_L1
\* l1_pruner.py 51-55 with the reconstruction left out: the reinit follows the scoring
AfterScore_reinit == "prune_reinit"

\* l1_pruner.py 51-52: _get_kept_wg_L1() is followed by _prune_and_build_new_model()
AfterScore == "prune_build"

Score(ratios) ==
    /\ pc = "prune_score"
    /\ \E ratio \in ratios :
        LET kept == get_kept_wg_L1(heap[model], args.wg, ratio)
        IN  pruner' = [st |-> "obj", model |-> model, kept_wg |-> kept,
                       pruned_wg |-> PrunedOf(heap[model], args.wg, kept), mask |-> <<>>,
                       ratio |-> ratio, forced |-> ForcedLayers(heap[model], args.wg, ratio)]
    /\ hist' = LogStage(hist, "score")
    /\ pc' = AfterScore
    /\ UNCHANGED <<args, heap, model, mask, prune_state, error, ai, ft, saved>>
    /\ UNCHANGED vl
    /\ UNCHANGED fb
    /\ UNCHANGED wk

PruneScore == Score(KeepRatios)

\* l1_pruner.py 52: _prune_and_build_new_model: the Mask (unstructured, the model
\* object stays the given one) or a new, sliced model object (structured)
PruneBuild ==
    /\ pc = "prune_build"
    /\ IF args.wg = "weight"
       THEN /\ pruner' = [pruner EXCEPT !.mask = BuildMask(heap[pruner.model], pruner.kept_wg)]
            /\ hist' = [LogStage(hist, "build") EXCEPT
                            !.before = [l \in 1..Len(heap[pruner.model]) |->
                                           heap[pruner.model][l].weight.shape]]
            /\ UNCHANGED heap
       ELSE /\ heap' = Append(heap, BuildNewModel(heap[pruner.model], pruner.kept_wg))
            /\ pruner' = [pruner EXCEPT !.model = Len(heap) + 1]
            /\ hist' = [LogStage(hist, "build") EXCEPT
                            !.before = [l \in 1..Len(heap'[Len(heap) + 1]) |->
                                           heap'[Len(heap) + 1][l].weight.shape]]
    /\ pc' = "prune_reinit"
    /\ UNCHANGED <<args, model, mask, prune_state, error, ai, ft, saved>>
    /\ UNCHANGED vl
    /\ UNCHANGED fb
    /\ UNCHANGED wk

\* l1_pruner.py 53: mask = self.mask if self.args.wg == 'weight' else None
LocalMask == IF args.wg = "weight" THEN MaskDict(pruner.mask) ELSE MaskNone

\* the tensors handed to copy_ for the Conv/Linear modules of mdl
CopyLog(mdl) ==
    {[name |-> mdl[l].name, shape |-> mdl[l].weight.shape] : l \in PrunableIdx(mdl)}

\* l1_pruner.py 72-73 without the raise: an unknown name falls through
PruneReinitRaises_never(name) == FALSE

\* l1_pruner.py 72-73: else: raise NotImplementedError
PruneReinitRaises(name) == name \notin SupportedReinit

\* l1_pruner.py 55-73: the reinit strategy
PruneReinit ==
    /\ pc = "prune_reinit"
    /\ LET pm == pruner.model
           logged == IF args.reinit = "" THEN hist
                     ELSE LogMask("prune_reinit", LocalMask.st = "dict")
           begun == LogStage(logged, "reinit_begin")
           ended == LogStage(begun, "reinit_end")
       IN  IF args.reinit = ""
           THEN pc' = "prune_return" /\ UNCHANGED <<heap, ai, error, hist>>
           ELSE IF PruneReinitRaises(args.reinit)
           THEN /\ Raise("NotImplementedError", "prune_reinit")
                /\ hist' = logged
                /\ UNCHANGED <<heap, ai>>
           ELSE IF args.reinit = "default"
           THEN /\ \E sd \in 1..NSeeds : heap' = [heap EXCEPT ![pm] = WeightsInit(heap[pm], sd)]
                /\ hist' = ended
                /\ pc' = "prune_return" /\ UNCHANGED <<ai, error>>
           ELSE IF args.reinit = "orth"
           THEN /\ \E sd \in 1..NSeeds :
                       heap' = [heap EXCEPT ![pm] = WeightsInitOrthogonal(heap[pm], sd)]
                /\ hist' = ended
                /\ pc' = "prune_return" /\ UNCHANGED <<ai, error>>
           ELSE IF args.reinit = "exact_isometry"
           THEN /\ heap' = [heap EXCEPT ![pm] = ExactIsometry(heap[pm])]
                /\ hist' = [ended EXCEPT !.written = @ \cup CopyLog(heap'[pm])]
                /\ pc' = "prune_return" /\ UNCHANGED <<ai, error>>
           ELSE IF args.reinit = "approximate_isometry"
           THEN /\ ai' = [AiIdle EXCEPT !.obj = pm, !.n_iter = N_ITER, !.lr = args.lr_AI,
                                        !.mask = LocalMask, !.ret = "prune_return"]
                /\ hist' = begun
                /\ pc' = "ai_next" /\ UNCHANGED <<heap, error>>
           ELSE /\ hist' = logged
                /\ pc' = "prune_return" /\ UNCHANGED <<heap, ai, error>>
    /\ UNCHANGED <<args, model, pruner, mask, prune_state, ft, saved>>
    /\ UNCHANGED vl
    /\ UNCHANGED fb
    /\ UNCHANGED wk

\* ------------------------------------------- approximate_isometry_optimize
\* l1_pruner.py 26 without the multiplication: w_ is left as the step made it
AIMaskMul_skipped(w, mt) == w

\* l1_pruner.py 26: w_ = torch.mul(w_, mask[name])
AIMaskMul(w, mt) == TorchMul(w, mt)

\* l1_pruner.py 31 without the view: the flattened w_ is returned
AIView_flat(w, shape) == w

\* l1_pruner.py 31: return w_.view(m.weight.shape)
AIView(w, shape) == [shape |-> shape, data |-> w.data]

\* m.weight.data.copy_(src): src is broadcast to the weight's shape
CopyOk(dest, src) ==
    Broadcastable(dest.shape, src.shape) /\ BroadcastShape(dest.shape, src.shape) = dest.shape

CopyInto(dest, src) ==
    [dest EXCEPT !.data = [k \in 1..Numel(dest.shape) |->
                              src.data[OperandOffset(k - 1, dest.shape, src.shape) + 1]]]

AiModule == heap[ai.obj][ai.l]

\* l1_pruner.py 33-35 and 16-19: the next Conv/Linear module; w_ is a detached
\* view of m.weight (same storage), the optimizer is new
AINext ==
    /\ pc = "ai_next"
    /\ LET todo == {l \in PrunableIdx(heap[ai.obj]) : l > ai.l}
       IN  IF todo = {}
           THEN pc' = ai.ret /\ hist' = LogStage(hist, "reinit_end") /\ UNCHANGED ai
           ELSE LET l == CHOOSE x \in todo : \A y \in todo : x <= y
                IN  /\ ai' = [ai EXCEPT !.l = l, !.i = 0, !.shared = TRUE, !.optSteps = 0,
                                        !.w_ = Flatten2D(heap[ai.obj][l].weight)]
                    /\ pc' = "ai_iter" /\ UNCHANGED hist
    /\ UNCHANGED <<args, heap, model, pruner, mask, prune_state, error, ft, saved>>
    /\ UNCHANGED vl
    /\ UNCHANGED fb
    /\ UNCHANGED wk

\* l1_pruner.py 20 with a convergence exit: the loop also ends once a step
\* would leave w_ as it is
AILoopDone_converged ==
    ai.i = ai.n_iter
    \/ (ai.i > 0 /\ Len(ai.w_.shape) = 2 /\ AdamFirstStep(ai.w_, ai.lr) = ai.w_)

\* l1_pruner.py 20: for i in range(n_iter) is exhausted
AILoopDone == ai.i = ai.n_iter

\* l1_pruner.py 28 left out: the optimizer that took the step is used again
AIRecreate_kept(steps) == steps

\* l1_pruner.py 28: optim = torch.optim.Adam([w_], lr): the steps the optimizer
\* of the next iteration has taken (its moment estimates are those of 0 steps)
AIRecreate(steps) == 0

\* l1_pruner.py 20-28: one iteration: loss, step, mask, new Variable, new optimizer
AIIterate ==
    /\ pc = "ai_iter"
    /\ ~AILoopDone
    /\ IF Len(ai.w_.shape) > 2
       THEN \* w_.t() expects a tensor with <= 2 dimensions
            Raise("RuntimeError", "ai_t") /\ UNCHANGED <<heap, ai>>
       ELSE LET stepped == AdamFirstStep(ai.w_, ai.lr)
                name == AiModule.name
            IN  /\ heap' = IF ai.shared
                           THEN [heap EXCEPT ![ai.obj][ai.l].weight.data = stepped.data]
                           ELSE heap
                /\ IF ai.mask.st # "dict"
                   THEN /\ ai' = [ai EXCEPT !.w_ = stepped, !.i = @ + 1,
                                            !.optSteps = AIRecreate(@ + 1)]
                        /\ pc' = "ai_iter" /\ UNCHANGED error
                   ELSE IF ~MaskHas(ai.mask.m, name)
                   THEN Raise("KeyError", "ai_mul") /\ UNCHANGED ai
                   ELSE IF ~Broadcastable(stepped.shape, MaskGet(ai.mask.m, name).shape)
                   THEN Raise("RuntimeError", "ai_mul") /\ UNCHANGED ai
                   ELSE /\ ai' = [ai EXCEPT !.w_ = AIMaskMul(stepped, MaskGet(ai.mask.m, name)),
                                            !.shared = FALSE, !.i = @ + 1,
                                            !.optSteps = AIRecreate(@ + 1)]
                        /\ pc' = "ai_iter" /\ UNCHANGED error
    /\ UNCHANGED <<args, model, pruner, mask, prune_state, ft, saved, hist>>
    /\ UNCHANGED vl
    /\ UNCHANGED fb
    /\ UNCHANGED wk

\* l1_pruner.py 31 and 36: the view to the weight's shape, and copy_ into the module
AIFinish ==
    /\ pc = "ai_iter"
    /\ AILoopDone
    /\ IF Numel(ai.w_.shape) # Numel(AiModule.weight.shape)
       THEN Raise("RuntimeError", "ai_view") /\ UNCHANGED <<heap, hist>>
       ELSE LET out == AIView(ai.w_, AiModule.weight.shape)
            IN  /\ hist' = [hist EXCEPT !.written = @ \cup {[name |-> AiModule.name, shape |-> out.shape]}]
                /\ IF CopyOk(AiModule.weight, out)
                   THEN /\ heap' = [heap EXCEPT ![ai.obj][ai.l].weight = CopyInto(@, out)]
                        /\ pc' = "ai_next" /\ UNCHANGED error
                   ELSE Raise("RuntimeError", "ai_copy") /\ UNCHANGED heap
    /\ UNCHANGED <<args, model, pruner, mask, prune_state, ai, ft, saved>>
    /\ UNCHANGED vl
    /\ UNCHANGED fb
    /\ UNCHANGED wk


\* main.py 349: model = pruner.prune()
PruneReturn ==
    /\ pc = "prune_return"
    /\ model' = pruner.model
    /\ hist' = LogStage(hist, "return")
    /\ pc' = "post_prune"
    /\ UNCHANGED <<args, heap, pruner, mask, prune_state, error, ai, ft, saved>>
    /\ UNCHANGED vl
    /\ UNCHANGED fb
    /\ UNCHANGED wk


\* ------------------------------------------------- main_worker: after pruning
\* main.py 352-355: mask = pruner.mask; apply_mask_forward(model)
PostPrune ==
    /\ pc = "post_prune"
    /\ IF args.wg = "weight"
       THEN /\ mask' = MaskDict(pruner.mask)
            /\ heap' = [heap EXCEPT ![model] = ApplyMaskForward(@, pruner.mask)]
            /\ hist' = LogMask("post_prune", TRUE)
       ELSE /\ hist' = LogMask("post_prune", FALSE)
            /\ UNCHANGED <<mask, heap>>
    /\ pc' = "save_pruned"
    /\ UNCHANGED <<args, model, pruner, prune_state, error, ai, ft, saved>>
    /\ UNCHANGED vl
    /\ UNCHANGED fb
    /\ UNCHANGED wk

\* main.py 391-392, 466-467, 533-534 left out: the record never gets a 'mask'
StateKeys_nomask(mark) ==
    IF mark = "just_finished_prune"
    THEN {"arch", "model", "state_dict", "acc1", "acc5", "ExpID", "pruned_wg", "kept_wg"}
    ELSE {"epoch", "arch", "model", "state_dict", "acc1", "acc5", "optimizer", "ExpID", "prune_state"}

\* the keys of the record save_model is given
StateKeys(mark) ==
    (IF mark = "just_finished_prune"
     THEN {"arch", "model", "state_dict", "acc1", "acc5", "ExpID", "pruned_wg", "kept_wg"}
     ELSE {"epoch", "arch", "model", "state_dict", "acc1", "acc5", "optimizer", "ExpID", "prune_state"})
    \cup (IF args.wg = "weight" THEN {"mask"} ELSE {})

\* the record handed to save_model: if args.wg == 'weight': state['mask'] = mask
StateRecord(mark, epoch) ==
    [mark |-> mark, keys |-> StateKeys(mark), epoch |-> epoch,
     mask |-> IF args.wg = "weight" THEN mask ELSE MaskUndef,
     model |-> heap[model]]

\* main.py 381-393: save the just pruned model
SaveJustPruned ==
    /\ pc = "save_pruned"
    /\ saved' = saved \cup {StateRecord("just_finished_prune", 0)}
    /\ hist' = LogMask("checkpoint", "mask" \in StateKeys("just_finished_prune"))
    /\ pc' = "reinit"
    /\ UNCHANGED <<args, heap, model, pruner, mask, prune_state, error, ai, ft>>
    /\ UNCHANGED vl
    /\ UNCHANGED fb
    /\ UNCHANGED wk

\* main.py 404-409: before finetuning, we may reinit the weights by some rule
MainReinit ==
    /\ pc = "reinit"
    /\ IF args.reinit = ""
       THEN pc' = "finetune" /\ UNCHANGED <<mask, heap, error, hist>>
       ELSE IF args.wg = "weight" /\ pruner.st = "None"
       THEN \* pruner.mask of None
            Raise("AttributeError", "main_reinit") /\ UNCHANGED <<mask, heap, hist>>
       ELSE LET m == IF args.wg = "weight" THEN MaskDict(pruner.mask) ELSE MaskNone
            IN  /\ mask' = m
                /\ IF args.reinit \notin SupportedReinit
                   THEN /\ Raise("NotImplementedError", "main_reinit")
                        /\ hist' = LogMask("main_reinit", m.st = "dict")
                        /\ UNCHANGED heap
                   ELSE /\ \E sd \in 1..NSeeds :
                               heap' = [heap EXCEPT ![model] = ReinitModel(@, args.reinit, m.m, sd)]
                        /\ hist' = LogStage(LogMask("main_reinit", m.st = "dict"), "main_reinit")
                        /\ pc' = "finetune" /\ UNCHANGED error
    /\ UNCHANGED <<args, model, pruner, prune_state, ai, ft, saved>>
    /\ UNCHANGED vl
    /\ UNCHANGED fb
    /\ UNCHANGED wk

\* ------------------------------------------------------------------ finetune
\* the preset learning rate of an epoch: 2 before epoch decay, 1 from it on
LrOf(decay, epoch) == IF epoch < decay THEN 2 ELSE 1

\* main.py 428-443: args.epochs, len(train_loader) and the lr schedule are read
Finetune ==
    /\ pc = "finetune"
    /\ \E ep \in 1..MaxEpochs, nb \in 1..MaxBatches, decay \in {1, MaxEpochs + 1} :
        ft' = [ft EXCEPT !.epochs = ep, !.nbatch = nb, !.sched = <<decay>>,
                         !.epoch = ft.start_epoch, !.last_lr = 0]
    /\ hist' = LogStage(hist, "finetune")
    /\ pc' = "epoch_begin"
    /\ UNCHANGED <<args, heap, model, pruner, mask, prune_state, error, ai, saved>>
    /\ UNCHANGED vl
    /\ UNCHANGED fb
    /\ UNCHANGED wk

\* main.py 444-469: the epoch loop head, the lr of the epoch, the checkpoint
\* saved when the lr just changed
EpochBegin ==
    /\ pc = "epoch_begin"
    /\ IF ft.epoch >= ft.epochs
       THEN pc' = "done" /\ UNCHANGED <<ft, saved, error, hist>>
       ELSE LET lr == LrOf(ft.sched[1], ft.epoch)
            IN  IF ft.last_lr # 0 /\ lr # ft.last_lr
                THEN IF args.wg = "weight" /\ mask.st = "undef"
                     THEN Raise("NameError", "lr_checkpoint") /\ UNCHANGED <<ft, saved, hist>>
                     ELSE /\ saved' = saved \cup {StateRecord("lr_epoch", ft.epoch)}
                          /\ hist' = LogMask("checkpoint", "mask" \in StateKeys("lr_epoch"))
                          /\ ft' = [ft EXCEPT !.lr = lr, !.batch = 0]
                          /\ pc' = "train_loop" /\ UNCHANGED error
                ELSE /\ ft' = [ft EXCEPT !.lr = lr, !.batch = 0]
                     /\ pc' = "train_loop" /\ UNCHANGED <<saved, error, hist>>
    /\ UNCHANGED <<args, heap, model, pruner, mask, prune_state, ai>>
    /\ UNCHANGED vl
    /\ UNCHANGED fb
    /\ UNCHANGED wk

\* main.py 568: for i, (images, target) in enumerate(train_loader)
TrainLoop ==
    /\ pc = "train_loop"
    /\ pc' = IF ft.batch < ft.nbatch THEN "train_forward" ELSE "validate"
    /\ UNCHANGED <<args, heap, model, pruner, mask, prune_state, error, ai, ft, saved, hist>>
    /\ UNCHANGED vl
    /\ UNCHANGED fb
    /\ UNCHANGED wk

\* main.py 581-589: output = model(images); loss
TrainForward ==
    /\ pc = "train_forward"
    /\ pc' = "train_step"
    /\ UNCHANGED <<args, heap, model, pruner, mask, prune_state, error, ai, ft, saved, hist>>
    /\ UNCHANGED vl
    /\ UNCHANGED fb
    /\ UNCHANGED wk

\* a weight update of the optimizer: every entry of every module moves by d
OptimizerStep(mdl, d) ==
    [l \in 1..Len(mdl) |->
        [mdl[l] EXCEPT !.weight.data = [k \in 1..Numel(mdl[l].weight.shape) |-> mdl[l].weight.data[k] + d]]]

\* main.py 612-615: optimizer.zero_grad(); loss.backward(); optimizer.step()
TrainStep ==
    /\ pc = "train_step"
    /\ \E d \in {-1, 1} : heap' = [heap EXCEPT ![model] = OptimizerStep(@, d)]
    /\ ft' = [ft EXCEPT !.steps = @ + 1]
    /\ pc' = "train_mask"
    /\ UNCHANGED <<args, model, pruner, mask, prune_state, error, ai, saved, hist>>
    /\ UNCHANGED vl
    /\ UNCHANGED fb
    /\ UNCHANGED wk

\* main.py 617-619 with the reapplication left out
TrainReapplies_never == FALSE

\* main.py 618: if args.method and args.wg == 'weight'
TrainReapplies == args.method # "" /\ args.wg = "weight"

\* main.py 617-619: after update, zero out pruned weights
TrainMask ==
    /\ pc = "train_mask"
    /\ IF TrainReapplies
       THEN IF mask.st = "undef"
            THEN Raise("NameError", "apply_mask_forward") /\ UNCHANGED <<heap, ft, hist>>
            ELSE IF mask.st = "None"
            THEN Raise("TypeError", "apply_mask_forward") /\ UNCHANGED <<heap, ft, hist>>
            ELSE IF ~ApplyMaskOk(heap[model], mask.m)
            THEN Raise("RuntimeError", "apply_mask_forward") /\ UNCHANGED <<heap, ft, hist>>
            ELSE /\ heap' = [heap EXCEPT ![model] = ApplyMaskForward(@, mask.m)]
                 /\ hist' = LogMask("train", TRUE)
                 /\ ft' = [ft EXCEPT !.batch = @ + 1]
                 /\ pc' = "train_loop" /\ UNCHANGED error
       ELSE /\ hist' = LogMask("train", FALSE)
            /\ ft' = [ft EXCEPT !.batch = @ + 1]
            /\ pc' = "train_loop" /\ UNCHANGED <<heap, error>>
    /\ UNCHANGED <<args, model, pruner, mask, prune_state, ai, saved>>
    /\ UNCHANGED vl
    /\ UNCHANGED fb
    /\ UNCHANGED wk

\* main.py 475, 496-497: last_lr = lr; evaluate on validation set
Validate ==
    /\ pc = "validate"
    /\ ft' = [ft EXCEPT !.last_lr = ft.lr]
    /\ pc' = "epoch_end"
    /\ UNCHANGED <<args, heap, model, pruner, mask, prune_state, error, ai, saved, hist>>
    /\ UNCHANGED vl
    /\ UNCHANGED fb
    /\ UNCHANGED wk

\* main.py 518-543: the end-of-epoch checkpoint
EpochEnd ==
    /\ pc = "epoch_end"
    /\ IF args.method # ""
       THEN IF args.wg = "weight" /\ mask.st = "undef"
            THEN Raise("NameError", "checkpoint") /\ UNCHANGED <<ft, saved, hist>>
            ELSE /\ saved' = saved \cup {StateRecord("", ft.epoch + 1)}
                 /\ hist' = LogMask("checkpoint", "mask" \in StateKeys(""))
                 /\ ft' = [ft EXCEPT !.epoch = @ + 1]
                 /\ pc' = "epoch_begin" /\ UNCHANGED error
       ELSE /\ saved' = saved \cup {[mark |-> "checkpoint.pth.tar", epoch |-> ft.epoch + 1,
                                    keys |-> {"epoch", "arch", "state_dict", "best_acc1", "optimizer"},
                                    mask |-> MaskUndef, model |-> heap[model]]}
            /\ ft' = [ft EXCEPT !.epoch = @ + 1]
            /\ pc' = "epoch_begin" /\ UNCHANGED <<error, hist>>
    /\ UNCHANGED <<args, heap, model, pruner, mask, prune_state, ai>>
    /\ UNCHANGED vl
    /\ UNCHANGED fb
    /\ UNCHANGED wk

Next ==
    \/ Start \/ LoadResume \/ DirectlyFt
    \/ PruneScore \/ PruneBuild \/ PruneReinit \/ AINext \/ AIIterate \/ AIFinish \/ PruneReturn
    \/ PostPrune \/ SaveJustPruned \/ MainReinit
    \/ Finetune \/ EpochBegin \/ TrainLoop \/ TrainForward \/ TrainStep \/ TrainMask
    \/ Validate \/ EpochEnd

Spec == Init /\ [][Next]_vars

\* ------------------------------------ apply_mask_forward called on its own
\* The function-level runs: a network, any binary mask over its Conv/Linear
\* weights, and any interleaving of apply_mask_forward calls and optimizer steps.
MaskOfBits(mdl, bits) ==
    LET P == SortedSeq(PrunableIdx(mdl))
        off(i) == SumSeq([j \in 1..(i - 1) |-> Numel(mdl[P[j]].weight.shape)])
    IN  [i \in 1..Len(P) |->
            [name |-> mdl[P[i]].name,
             t |-> [shape |-> mdl[P[i]].weight.shape,
                    data |-> [k \in 1..Numel(mdl[P[i]].weight.shape) |-> bits[off(i) + k]]]]]

BinaryMasks(mdl) ==
    LET P == SortedSeq(PrunableIdx(mdl))
        total == SumSeq([j \in 1..Len(P) |-> Numel(mdl[P[j]].weight.shape)])
    IN  {MaskOfBits(mdl, bits) : bits \in [1..total -> {0, 1}]}

InitMask ==
    /\ args \in {a \in Configs : a.method = "L1" /\ a.wg = "weight" /\ a.reinit = ""
                                  /\ a.resume_path = "" /\ a.directly_ft_weights = ""}
    /\ heap = << BaseModel(args.arch, args.seed) >>
    /\ model = 1
    /\ pruner = PrunerNone
    /\ mask \in {MaskDict(m) : m \in BinaryMasks(heap[1])}
    /\ prune_state = ""
    /\ pc = "fn"
    /\ error = NoError
    /\ ai = AiIdle
    /\ ft = FtIdle
    /\ saved = {}
    /\ hist = HistEmpty
    /\ vl = VlIdle
    /\ fb = FbIdle
    /\ wk = WkIdle

\* apply_mask_forward(model); hist.applied counts the calls since the last
\* optimizer step, hist.once keeps the model as the first of them left it
FnApplyMask ==
    /\ pc = "fn"
    /\ hist.applied < MaxApply
    /\ IF ~ApplyMaskOk(heap[model], mask.m)
       THEN Raise("RuntimeError", "apply_mask_forward") /\ UNCHANGED <<heap, hist>>
       ELSE LET masked == ApplyMaskForward(heap[model], mask.m)
            IN  /\ heap' = [heap EXCEPT ![model] = masked]
                /\ hist' = [hist EXCEPT !.applied = @ + 1,
                                        !.once = IF hist.applied = 0 THEN masked ELSE @]
                /\ UNCHANGED <<pc, error>>
    /\ UNCHANGED <<args, model, pruner, mask, prune_state, ai, ft, saved>>
    /\ UNCHANGED vl
    /\ UNCHANGED fb
    /\ UNCHANGED wk

\* optimizer.step()
FnOptimizerStep ==
    /\ pc = "fn"
    /\ ft.steps < MaxFnSteps
    /\ \E d \in {-1, 1} : heap' = [heap EXCEPT ![model] = OptimizerStep(@, d)]
    /\ ft' = [ft EXCEPT !.steps = @ + 1]
    /\ hist' = [hist EXCEPT !.applied = 0, !.once = <<>>]
    /\ UNCHANGED <<args, model, pruner, mask, prune_state, pc, error, ai, saved>>
    /\ UNCHANGED vl
    /\ UNCHANGED fb
    /\ UNCHANGED wk

NextMask == FnApplyMask \/ FnOptimizerStep

SpecMask == InitMask /\ [][NextMask]_vars

\* --------------------------------------------- the pruning pass on its own
\* The runs of the selector: one pruning pass without reinitialization, on
\* every network and for every keep-ratio of SelRatios (0 is the boundary at
\* which the target keep-count is 0), up to the mask application that follows.
SelRatios == {<<0, 1>>, <<1, 4>>, <<1, 3>>, <<1, 2>>, <<1, 1>>}

InitSelect ==
    /\ args \in [method : {"L1"}, wg : {"weight", "filter"}, reinit : {""},
                 resume_path : {""}, directly_ft_weights : {""},
                 arch : SelArchNames, seed : 1..NSeeds, lr_AI : {1}, n_iter_AI : {N_ITER}]
    /\ heap = << BaseModel(args.arch, args.seed) >>
    /\ model = 1
    /\ pruner = PrunerNone
    /\ mask = MaskUndef
    /\ prune_state = "prune"
    /\ pc = "prune_score"
    /\ error = NoError
    /\ ai = AiIdle
    /\ ft = FtIdle
    /\ saved = {}
    /\ hist = HistEmpty
    /\ vl = VlIdle
    /\ fb = FbIdle
    /\ wk = WkIdle

SelScore == Score(SelRatios)

NextSelect == SelScore \/ PruneBuild \/ PruneReinit \/ PruneReturn \/ PostPrune

SpecSelect == InitSelect /\ [][NextSelect]_vars

\* ------------------------------------------------- validate called on its own
\* The function-level runs of validate(val_loader, model, criterion, args,
\* noisy_model_ensemble): a module in train or eval mode, a loader of 0 to
\* MaxBatches batches, with and without the noisy ensemble of 0 to MaxNoise
\* models, called up to MaxCalls times on the same module.
MaxNoise == 2
MaxCalls == 2

\* utils.add_noise_to_model(model, std): a new module, the copy of model with
\* noise added to its weights; the copy has the training flag of the original
add_noise_to_model(training, m) == Append(training, training[m])

InitValidate ==
    /\ args \in {a \in Configs : a.method = "" /\ a.wg = "filter" /\ a.reinit = ""
                                  /\ a.arch = "mlp" /\ a.seed = 1}
    /\ heap = << BaseModel(args.arch, args.seed) >>
    /\ model = 1
    /\ pruner = PrunerNone
    /\ mask = MaskUndef
    /\ prune_state = ""
    /\ pc = "v_call"
    /\ error = NoError
    /\ ai = AiIdle
    /\ ft = FtIdle
    /\ saved = {}
    /\ hist = HistEmpty
    /\ \E flag \in BOOLEAN : vl = [VlIdle EXCEPT !.training = <<flag>>, !.given = model]
    /\ fb = FbIdle
    /\ wk = WkIdle

\* main.py 629-642: the call, train_state = model.training, model.eval()
ValidateCall ==
    /\ pc \in {"v_call", "v_returned"}
    /\ vl.calls < MaxCalls
    /\ \E noisy \in BOOLEAN, num \in 0..MaxNoise, nb \in 0..MaxBatches :
        /\ (~noisy => num = 0)
        /\ vl' = [vl EXCEPT !.model = vl.given,
                            !.before = vl.training[vl.given],
                            !.train_state = vl.training[vl.given],
                            !.training = [@ EXCEPT ![vl.given] = FALSE],
                            !.model_ensemble = <<>>,
                            !.noisy_model_ensemble = noisy, !.model_noise_num = num,
                            !.nbatch = nb, !.i = 0, !.calls = @ + 1]
    /\ pc' = "v_ensemble"
    /\ UNCHANGED <<args, heap, model, pruner, mask, prune_state, error, ai, ft, saved, hist>>
    /\ UNCHANGED fb
    /\ UNCHANGED wk

RECURSIVE NoisyModels(_, _, _)
\* main.py 647-649: for i in range(args.model_noise_num): append a noisy model
NoisyModels(training, m, n) ==
    IF n = 0 THEN [training |-> training, ensemble |-> <<>>]
    ELSE LET r == NoisyModels(training, m, n - 1)
             t == add_noise_to_model(r.training, m)
         IN  [training |-> t, ensemble |-> Append(r.ensemble, Len(t))]

\* main.py 645-652: model_ensemble is the noisy models or the model itself
ValidateEnsemble ==
    /\ pc = "v_ensemble"
    /\ IF vl.noisy_model_ensemble
       THEN LET r == NoisyModels(vl.training, vl.model, vl.model_noise_num)
            IN  vl' = [vl EXCEPT !.training = r.training, !.model_ensemble = r.ensemble]
       ELSE vl' = [vl EXCEPT !.model_ensemble = <<vl.model>>]
    /\ pc' = "v_batch"
    /\ UNCHANGED <<args, heap, model, pruner, mask, prune_state, error, ai, ft, saved, hist>>
    /\ UNCHANGED fb
    /\ UNCHANGED wk

\* main.py 657-680: one batch; `for model in model_ensemble` leaves the local
\* variable model bound to the last model of the ensemble, and the division by
\* len(model_ensemble) of the integer 0 raises when the ensemble is empty
ValidateBatch ==
    /\ pc = "v_batch"
    /\ vl.i < vl.nbatch
    /\ IF vl.model_ensemble = <<>>
       THEN Raise("ZeroDivisionError", "validate") /\ UNCHANGED vl
       ELSE /\ vl' = [vl EXCEPT !.model = vl.model_ensemble[Len(vl.model_ensemble)],
                                !.i = @ + 1]
            /\ UNCHANGED <<pc, error>>
    /\ UNCHANGED <<args, heap, model, pruner, mask, prune_state, ai, ft, saved, hist>>
    /\ UNCHANGED fb
    /\ UNCHANGED wk

\* main.py 690-693: if train_state: model.train(); return; the noisy models
\* are dropped with the frame
ValidateReturn ==
    /\ pc = "v_batch"
    /\ vl.i = vl.nbatch
    /\ LET t == IF vl.train_state THEN [vl.training EXCEPT ![vl.model] = TRUE]
                ELSE vl.training
       IN  vl' = [vl EXCEPT !.training = <<t[vl.given]>>, !.model = 0,
                            !.model_ensemble = <<>>]
    /\ pc' = "v_returned"
    /\ UNCHANGED <<args, heap, model, pruner, mask, prune_state, error, ai, ft, saved, hist>>
    /\ UNCHANGED fb
    /\ UNCHANGED wk

NextValidate == ValidateCall \/ ValidateEnsemble \/ ValidateBatch \/ ValidateReturn

SpecValidate == InitValidate /\ [][NextValidate]_vars

\* ------------------------------------------------- finetune called on its own
\* The function-level runs of finetune's accuracy bookkeeping: every epoch range
\* range(start_epoch, epochs) up to MaxEpochs, every best_acc1 handed in and
\* every accuracy 0..MaxAcc and loss 1..MaxLoss that validate can return.
MaxAcc == 2
MaxLoss == 2

InitFinetune ==
    /\ args \in {a \in Configs : a.method = "" /\ a.wg = "filter" /\ a.reinit = ""
                                  /\ a.arch = "mlp" /\ a.seed = 1}
    /\ heap = << BaseModel(args.arch, args.seed) >>
    /\ model = 1
    /\ pruner = PrunerNone
    /\ mask = MaskUndef
    /\ prune_state = ""
    /\ pc = "fb_epoch"
    /\ error = NoError
    /\ ai = AiIdle
    /\ ft = FtIdle
    /\ saved = {}
    /\ hist = HistEmpty
    /\ vl = VlIdle
    /\ \E s \in 0..1, e \in 0..MaxEpochs, b \in 0..MaxAcc, tt \in BOOLEAN :
        fb = [FbIdle EXCEPT !.start_epoch = s, !.epochs = e, !.epoch = s,
                            !.test_trainset = tt, !.given = b, !.best_acc1 = b]
    /\ wk = WkIdle

\* main.py 497-504: the accuracies and losses of the epoch; loss_train is -1
\* unless the train set is tested too
FinetuneEvaluate ==
    /\ pc = "fb_epoch"
    /\ fb.epoch < fb.epochs
    /\ \E a \in 0..MaxAcc, lt \in 1..MaxLoss,
          ltr \in (IF fb.test_trainset THEN 1..MaxLoss ELSE {-1}) :
        fb' = [fb EXCEPT !.acc1 = a, !.loss_test = lt, !.loss_train = ltr,
                         !.acc1_list = Append(@, a),
                         !.loss_train_list = Append(@, ltr),
                         !.loss_test_list = Append(@, lt)]
    /\ pc' = "fb_remember"
    /\ UNCHANGED <<args, heap, model, pruner, mask, prune_state, error, ai, ft, saved, hist, vl>>
    /\ UNCHANGED wk

\* main.py 507: is_best = acc1 > best_acc1
IsBest(acc1, best_acc1) == acc1 > best_acc1

\* main.py 507-543: remember the best accuracy, hand is_best to the checkpoint
\* writer; then the next epoch
FinetuneRemember ==
    /\ pc = "fb_remember"
    /\ LET is_best == IsBest(fb.acc1, fb.best_acc1)
           best_acc1 == IF fb.acc1 > fb.best_acc1 THEN fb.acc1 ELSE fb.best_acc1
       IN  fb' = [fb EXCEPT !.best_acc1 = best_acc1,
                            !.best_acc1_epoch = IF is_best THEN fb.epoch ELSE @,
                            !.best_loss_train = IF is_best THEN <<fb.loss_train>> ELSE @,
                            !.best_loss_test = IF is_best THEN <<fb.loss_test>> ELSE @,
                            !.is_best = Append(@, is_best),
                            !.epoch = @ + 1]
    /\ pc' = "fb_epoch"
    /\ UNCHANGED <<args, heap, model, pruner, mask, prune_state, error, ai, ft, saved, hist, vl>>
    /\ UNCHANGED wk

\* main.py 545-551: best = [best_acc1, best_loss_train, best_loss_test]; a
\* local that no epoch has bound raises UnboundLocalError
FinetuneReturn ==
    /\ pc = "fb_epoch"
    /\ fb.epoch >= fb.epochs
    /\ IF fb.best_loss_train = <<>> \/ fb.best_loss_test = <<>>
       THEN Raise("UnboundLocalError", "finetune") /\ UNCHANGED fb
       ELSE /\ fb' = [fb EXCEPT !.best = <<fb.best_acc1, fb.best_loss_train[1],
                                           fb.best_loss_test[1]>>]
            /\ pc' = "fb_returned"
            /\ UNCHANGED error
    /\ UNCHANGED <<args, heap, model, pruner, mask, prune_state, ai, ft, saved, hist, vl>>
    /\ UNCHANGED wk

NextFinetune == FinetuneEvaluate \/ FinetuneRemember \/ FinetuneReturn

SpecFinetune == InitFinetune /\ [][NextFinetune]_vars

\* ------------------------------------------- the worker processes of a node
\* main() starts main_worker once, or with multiprocessing_distributed once per
\* GPU of the node (1..MaxGpus); every worker prunes, finetunes MaxEpochs epochs
\* and writes its checkpoints; a torch.save is two steps, so that two of them
\* can be in progress at once.
MaxGpus == 2

\* main.py 82-85: mp.spawn(main_worker, nprocs=ngpus_per_node) or one main_worker
NProcs(mpd, ngpus) == IF mpd THEN ngpus ELSE 1

\* main.py 153-156: args.rank = args.rank * ngpus_per_node + gpu
RankOf(mpd, node, ngpus, gpu) == IF mpd THEN node * ngpus + gpu ELSE node

File(name) == [name |-> name, last_lr |-> 0, epoch |-> 0]

\* main.py 702-710: the files save_model(state, is_best, mark) writes, in order
save_model_files(is_best, mark) ==
    << File("checkpoint.pth") >>
    \o (IF is_best THEN << File("checkpoint_best.pth") >> ELSE <<>>)
    \o (IF mark.name # "" THEN << mark >> ELSE <<>>)

\* main.py 696-699: the files save_checkpoint(state, is_best) writes, in order
save_checkpoint_files(is_best) ==
    << File("checkpoint.pth.tar") >>
    \o (IF is_best THEN << File("model_best.pth.tar") >> ELSE <<>>)

\* main.py 519-520: not multiprocessing_distributed, or rank % ngpus_per_node == 0
MayWriteEpoch(mpd, rank, ngpus) == ~mpd \/ (mpd /\ rank % ngpus = 0)

InitWorkers ==
    /\ args \in {a \in Configs : a.method \in {"", "L1"} /\ a.wg = "filter" /\ a.reinit = ""
                                  /\ a.resume_path = "" /\ a.directly_ft_weights = ""
                                  /\ a.arch = "mlp" /\ a.seed = 1}
    /\ heap = << BaseModel(args.arch, args.seed) >>
    /\ model = 1
    /\ pruner = PrunerNone
    /\ mask = MaskUndef
    /\ prune_state = ""
    /\ pc = "workers"
    /\ error = NoError
    /\ ai = AiIdle
    /\ ft = FtIdle
    /\ saved = {}
    /\ hist = HistEmpty
    /\ vl = VlIdle
    /\ fb = FbIdle
    /\ \E mpd \in BOOLEAN, ngpus \in 1..MaxGpus, node \in 0..1, decay \in {1, MaxEpochs + 1},
          shared \in BOOLEAN :
        wk = [multiprocessing_distributed |-> mpd, ngpus_per_node |-> ngpus, node |-> node,
              epochs |-> MaxEpochs, decay |-> decay, shared_path |-> shared,
              w |-> [i \in 1..NProcs(mpd, ngpus) |->
                        [gpu |-> i - 1, rank |-> RankOf(mpd, node, ngpus, i - 1),
                         pc |-> "main", epoch |-> 0, lr |-> 0, last_lr |-> 0,
                         kind |-> "", todo |-> <<>>, writing |-> <<>>, ret |-> ""]],
              wrote |-> {}]

\* a worker calls save_model / save_checkpoint with these files to write
CallSave(g, kind, files, ret) ==
    [wk EXCEPT !.w[g].pc = "save", !.w[g].kind = kind, !.w[g].todo = files, !.w[g].ret = ret]

\* main.py 329-393: the worker prunes and saves the just pruned model
WorkerPrune(g) ==
    /\ wk.w[g].pc = "main"
    /\ IF args.method # ""
       THEN wk' = CallSave(g, "just_finished_prune",
                           save_model_files(FALSE, File("checkpoint_just_finished_prune.pth")),
                           "epoch")
       ELSE wk' = [wk EXCEPT !.w[g].pc = "epoch"]

\* main.py 444-469: the epoch loop head; the model is saved if the lr just changed
WorkerEpoch(g) ==
    /\ wk.w[g].pc = "epoch"
    /\ LET me == wk.w[g]
           lr == LrOf(wk.decay, me.epoch)
       IN  IF me.epoch >= wk.epochs
           THEN wk' = [wk EXCEPT !.w[g].pc = "done"]
           ELSE IF me.last_lr # 0 /\ lr # me.last_lr
           THEN wk' = [CallSave(g, "lr_change",
                                save_model_files(FALSE, [name |-> "checkpoint_lr_epoch.pth",
                                                         last_lr |-> me.last_lr,
                                                         epoch |-> me.epoch]),
                                "train")
                       EXCEPT !.w[g].lr = lr]
           ELSE wk' = [wk EXCEPT !.w[g].pc = "train", !.w[g].lr = lr]

\* main.py 472-475: train for one epoch; last_lr = lr
WorkerTrain(g) ==
    /\ wk.w[g].pc = "train"
    /\ wk' = [wk EXCEPT !.w[g].pc = "epoch_end", !.w[g].last_lr = wk.w[g].lr]

\* main.py 497-543: validate, is_best, and the end-of-epoch checkpoint of the
\* worker that may write it
WorkerEpochEnd(g) ==
    /\ wk.w[g].pc = "epoch_end"
    /\ LET me == wk.w[g]
           next == [wk EXCEPT !.w[g].epoch = @ + 1]
       IN  IF MayWriteEpoch(wk.multiprocessing_distributed, me.rank, wk.ngpus_per_node)
           THEN \E is_best \in BOOLEAN :
                   wk' = [CallSave(g, "end_of_epoch",
                                   IF args.method # ""
                                   THEN save_model_files(is_best, File(""))
                                   ELSE save_checkpoint_files(is_best),
                                   "epoch")
                          EXCEPT !.w[g].epoch = @ + 1]
           ELSE wk' = [next EXCEPT !.w[g].pc = "epoch"]

\* torch.save(state, out) begins: the file is opened for writing
WorkerOpen(g) ==
    /\ wk.w[g].pc = "save"
    /\ wk.w[g].writing = <<>>
    /\ wk.w[g].todo # <<>>
    /\ wk' = [wk EXCEPT !.w[g].writing = << Head(wk.w[g].todo) >>,
                        !.w[g].todo = Tail(@),
                        !.wrote = @ \cup {<<g, wk.w[g].kind>>}]

\* torch.save(state, out) ends; after the last file the save function returns
WorkerClose(g) ==
    /\ wk.w[g].pc = "save"
    /\ wk.w[g].writing # <<>>
    /\ wk' = [wk EXCEPT !.w[g].writing = <<>>,
                        !.w[g].pc = IF wk.w[g].todo = <<>> THEN wk.w[g].ret ELSE @]

Others == <<args, heap, model, pruner, mask, prune_state, pc, error, ai, ft, saved, hist, vl, fb>>

WorkersPrune == (\E g \in DOMAIN wk.w : WorkerPrune(g)) /\ UNCHANGED Others
WorkersEpoch == (\E g \in DOMAIN wk.w : WorkerEpoch(g)) /\ UNCHANGED Others
WorkersTrain == (\E g \in DOMAIN wk.w : WorkerTrain(g)) /\ UNCHANGED Others
WorkersEpochEnd == (\E g \in DOMAIN wk.w : WorkerEpochEnd(g)) /\ UNCHANGED Others
WorkersOpen == (\E g \in DOMAIN wk.w : WorkerOpen(g)) /\ UNCHANGED Others
WorkersClose == (\E g \in DOMAIN wk.w : WorkerClose(g)) /\ UNCHANGED Others

NextWorkers ==
    \/ WorkersPrune \/ WorkersEpoch \/ WorkersTrain \/ WorkersEpochEnd
    \/ WorkersOpen \/ WorkersClose

SpecWorkers == InitWorkers /\ [][NextWorkers]_vars

\* ------------------------------------------------------------------ claims
HasMaskedEntry(m) ==
    \E i \in 1..Len(m) : \E k \in 1..Numel(m[i].t.shape) : m[i].t.data[k] = 0

\* C1: in unstructured mode (a method is set and wg = 'weight'), at every forward
\* pass that follows an optimizer step (the next batch's forward, or validation
\* after the last batch) the mask has been reapplied: the global mask is a dict
\* and every weight entry it marks 0 holds 0.
C1_MaskedZeroAtForward ==
    (args.method # "" /\ args.wg = "weight" /\ ft.steps > 0
        /\ pc \in {"train_loop", "train_forward", "validate"})
    => (mask.st = "dict" /\ MaskedEntriesZero(heap[model], mask.m))

C1_Witness ==
    /\ args.method # "" /\ args.wg = "weight"
    /\ pc = "train_forward" /\ ft.steps > 0 /\ ft.batch > 0
    /\ mask.st = "dict" /\ HasMaskedEntry(mask.m)
    /\ \E l \in 1..Len(heap[model]) : \E k \in 1..Numel(heap[model][l].weight.shape) :
           heap[model][l].weight.data[k] # 0

\* C2: for every model and every binary mask, a second apply_mask_forward call
\* with no optimizer step since the first leaves every weight tensor as the
\* first call left it.
C2_MaskIdempotent ==
    hist.applied >= 2 => heap[model] = hist.once

C2_Witness ==
    /\ hist.applied >= 2 /\ ft.steps > 0
    /\ HasMaskedEntry(mask.m)
    /\ \E l \in 1..Len(heap[model]) : \E k \in 1..Numel(heap[model][l].weight.shape) :
           heap[model][l].weight.data[k] # 0

\* C3 as stated: in the unstructured case, for every reinit strategy, when
\* Pruner.prune() has returned the model every entry the Mask marks 0 holds 0.
C3_ZeroAtPruneReturn ==
    (pc = "post_prune" /\ args.wg = "weight" /\ args.reinit \in SupportedReinit)
    => MaskedEntriesZero(heap[model], pruner.mask)

\* C3 amended: in the unstructured case every entry the Mask marks 0 holds 0
\* (a) when Pruner.prune() has returned under approximate_isometry, and
\* (b) for every reinit strategy once main_worker has applied the mask to the
\* returned model (the model that is then saved and finetuned).
C3_ZeroAfterMaskApplied ==
    /\ (pc = "post_prune" /\ args.wg = "weight" /\ args.reinit = "approximate_isometry")
       => MaskedEntriesZero(heap[model], pruner.mask)
    /\ (pc = "save_pruned" /\ args.wg = "weight" /\ args.reinit \in SupportedReinit)
       => (mask.st = "dict" /\ mask.m = pruner.mask /\ MaskedEntriesZero(heap[model], mask.m))

C3_Witness ==
    /\ pc = "post_prune" /\ args.wg = "weight" /\ args.reinit = "approximate_isometry"
    /\ HasMaskedEntry(pruner.mask)
    /\ hist.written # {}

\* C4: in approximate_isometry_optimize with an active Mask, after every
\* iteration of every processed Conv/Linear layer w_ is the layer's flattened
\* weight with 0 at every masked-out entry, the tensor copied into the layer has
\* 0 there too, and the optimization does not stop on an error.
C4_MaskedZeroEachIteration ==
    /\ (pc = "ai_iter" /\ ai.mask.st = "dict" /\ ai.i > 0)
       => LET t == MaskGet(ai.mask.m, AiModule.name)
          IN  /\ ai.w_.shape = Flatten2D(AiModule.weight).shape
              /\ \A k \in 1..Numel(t.shape) : t.data[k] = 0 => ai.w_.data[k] = 0
    /\ (pc = "ai_next" /\ ai.mask.st = "dict" /\ ai.l > 0)
       => LET t == MaskGet(ai.mask.m, AiModule.name)
          IN  \A k \in 1..Numel(t.shape) : t.data[k] = 0 => AiModule.weight.data[k] = 0
    /\ (pc = "raised" /\ ai.mask.st = "dict" /\ args.wg = "weight")
       => error.site \notin {"ai_t", "ai_mul", "ai_view", "ai_copy"}

PruneSites == {"prune_reinit", "ai_t", "ai_mul", "ai_view", "ai_copy"}

\* C5: whenever the pruning pass aborts (Pruner.prune() raises), the original
\* model holds the weights it had before the pass started.
C5_AbortLeavesModelUntouched ==
    (pc = "raised" /\ error.site \in PruneSites)
    => heap[1] = BaseModel(args.arch, args.seed)

\* C6: with an unsupported reinit name, Pruner.prune() ends in
\* NotImplementedError: once the pruner has scored and built, the run is either
\* still inside prune() before the reinit branch or has raised there; the caller's
\* model variable still names the given model, the global mask was never set,
\* nothing was saved and finetuning never started.
C6_UnsupportedReinitAborts ==
    (pruner.st = "obj" /\ args.reinit # "" /\ args.reinit \notin SupportedReinit)
    => /\ pc \in {"prune_build", "prune_reinit", "raised"}
       /\ pc = "raised" => error = [type |-> "NotImplementedError", site |-> "prune_reinit"]
       /\ model = 1 /\ heap[1] = BaseModel(args.arch, args.seed)
       /\ mask = MaskUndef /\ saved = {} /\ ft = FtIdle

C6_Witness ==
    /\ pc = "raised" /\ error.site = "prune_reinit"
    /\ args.reinit = "kaiming" /\ pruner.st = "obj"
    /\ args.wg = "weight" /\ HasMaskedEntry(pruner.mask)

PlanKeys == {"kept_wg", "pruned_wg"}

\* C7 as stated: every checkpoint record written once pruning has happened holds
\* the model, its weights, the PruningPlan (kept and pruned sets) and, when
\* wg = 'weight', the Mask.
C7_EveryRecordHoldsPlan ==
    args.method # "" =>
        \A r \in saved :
            /\ {"model", "state_dict"} \cup PlanKeys \subseteq r.keys
            /\ args.wg = "weight" => ("mask" \in r.keys /\ r.mask.st = "dict")

\* C7 amended: every such record holds the model, its weights and, when
\* wg = 'weight', the Mask (and no mask otherwise); the PruningPlan is in the
\* just-finished-prune record and in no other.
C7_RecordContents ==
    args.method # "" =>
        \A r \in saved :
            /\ {"model", "state_dict"} \subseteq r.keys
            /\ r.model # <<>>
            /\ ("mask" \in r.keys) <=> (args.wg = "weight")
            /\ args.wg = "weight" => (r.mask.st = "dict" /\ r.mask.m # <<>>)
            /\ (PlanKeys \subseteq r.keys) <=> (r.mark = "just_finished_prune")
            /\ (PlanKeys \cap r.keys = {}) <=> (r.mark # "just_finished_prune")

C7_Witness ==
    /\ args.wg = "weight"
    /\ \E a \in saved, b \in saved, c \in saved :
           a.mark = "just_finished_prune" /\ b.mark = "lr_epoch" /\ c.mark = ""

\* C8: when finetuning restarts in mask mode from a checkpoint that holds a Mask
\* (resume_path with prune_state 'finetune', or directly_ft_weights), the global
\* mask is that Mask during the first and every later training step.
C8_MaskRestoredOnResume ==
    \A c \in hist.loaded :
        (args.wg = "weight" /\ "mask" \in c.keys
            /\ pc \in {"train_forward", "train_step", "train_mask"})
        => mask = MaskDict(c.mask)

\* C9: in a run with a pruning method, at every place a Mask can be used
\* (handed to reinitialization, applied after pruning, restored from a loaded
\* file, stored in a checkpoint, reapplied after an optimizer step) it is used
\* exactly when wg = 'weight'.
C9_ModeDecidesMaskUse ==
    args.method # "" => \A e \in hist.maskLog : e.used <=> (args.wg = "weight")

Unpruned == BaseModel(args.arch, args.seed)

\* C12: after the selection of any pruning pass every Conv/Linear layer keeps
\* at least one group, also when its target keep-count is 0: then exactly one
\* group is kept, the layer is reported, and no error is raised.
C12_NoEmptyLayer ==
    pruner.st = "obj" =>
        /\ pc = "raised" => error.site \in PruneSites
        /\ \A l \in PrunableIdx(Unpruned) : Len(pruner.kept_wg[l]) >= 1
        /\ \A l \in Selected(Unpruned, args.wg) :
               (TargetCount(NumGroups(Unpruned, args.wg, l), pruner.ratio) = 0)
               <=> (l \in pruner.forced)
        /\ \A l \in pruner.forced : Len(pruner.kept_wg[l]) = 1
        /\ pc \in {"post_prune", "save_pruned"} =>
               \A l \in PrunableIdx(heap[model]) : Numel(heap[model][l].weight.shape) >= 1

C12_Witness ==
    /\ pc = "save_pruned" /\ args.wg = "filter"
    /\ pruner.forced # {}
    /\ \E l \in pruner.forced : NumGroups(Unpruned, args.wg, l) > 1
C14_ShapesConsistent ==
    (args.wg = "filter" /\ pruner.st = "obj"
        /\ pc \in {"prune_reinit", "prune_return", "post_prune", "save_pruned"}) =>
        LET new == heap[pruner.model]
            old == Unpruned
        IN  /\ Len(new) = Len(old)
            /\ \A l \in 1..Len(old) :
                   LET q == Producer(old, l)
                   IN  IF IsConvOrLinear(old[l])
                       THEN /\ new[l].weight.shape[1] = Len(pruner.kept_wg[l])
                            /\ Len(new[l].weight.shape) = Len(old[l].weight.shape)
                            /\ Len(new[l].weight.data) = Numel(new[l].weight.shape)
                            /\ new[l].weight.shape[2] =
                                   (IF q = 0 THEN old[l].weight.shape[2]
                                    ELSE new[q].weight.shape[1])
                            /\ IsClassifier(old, l) =>
                                   new[l].weight.shape[1] = old[l].weight.shape[1]
                       ELSE q # 0 =>
                            /\ pruner.kept_wg[l] = pruner.kept_wg[q]
                            /\ new[l].weight.shape = <<new[q].weight.shape[1]>>

C14_Witness ==
    /\ args.wg = "filter" /\ args.arch = "cnn3" /\ pc = "save_pruned"
    /\ pruner.ratio = <<1, 2>>
    /\ heap[model][1].weight.shape = <<1, 1, 1, 1>>
    /\ heap[model][2].weight.shape = <<1>>
    /\ heap[model][3].weight.shape = <<2, 1, 1, 1>>
    /\ heap[model][4].weight.shape = <<2, 2>>
\* the positions at which the mask tensor t holds 1
Ones(t) == {k \in 1..Numel(t.shape) : t.data[k] = 1}

\* C15: after an unstructured pass at keep-ratio r the Mask of a layer of N
\* weights is a 0/1 tensor with exactly ceil(r * N) ones (r * N when that is an
\* integer; 1 when it is 0), every kept position outranks every other one
\* (higher magnitude, or equal magnitude and lower index) - which fixes the
\* Mask uniquely for given weights - and once the mask has been applied every
\* other weight is 0 and every kept weight is what it was.
C15_ExactUnstructuredSelection ==
    (args.wg = "weight" /\ pruner.st = "obj"
        /\ pc \in {"prune_reinit", "prune_return", "post_prune", "save_pruned"}) =>
        \A i \in 1..Len(pruner.mask) :
            LET t == pruner.mask[i].t
                l == CHOOSE x \in 1..Len(Unpruned) : Unpruned[x].name = pruner.mask[i].name
                w == Unpruned[l].weight
                n == Numel(w.shape)
            IN  /\ t.shape = w.shape
                /\ \A k \in 1..n : t.data[k] \in {0, 1}
                /\ (n * pruner.ratio[1]) % pruner.ratio[2] = 0 /\ pruner.ratio[1] > 0
                       => Cardinality(Ones(t)) * pruner.ratio[2] = n * pruner.ratio[1]
                /\ Cardinality(Ones(t)) = KeepCount(n, pruner.ratio)
                /\ \A a \in Ones(t), b \in (1..n) \ Ones(t) :
                       \/ Abs(w.data[a]) > Abs(w.data[b])
                       \/ (Abs(w.data[a]) = Abs(w.data[b]) /\ a < b)
                /\ pc = "save_pruned" =>
                       \A k \in 1..n :
                           heap[model][l].weight.data[k] = (IF k \in Ones(t) THEN w.data[k] ELSE 0)

C15_Witness ==
    /\ args.wg = "weight" /\ pc = "save_pruned" /\ pruner.ratio = <<1, 4>>
    /\ \E i \in 1..Len(pruner.mask) :
          LET t == pruner.mask[i].t
              l == CHOOSE x \in 1..Len(Unpruned) : Unpruned[x].name = pruner.mask[i].name
              w == Unpruned[l].weight
          IN  /\ Numel(t.shape) = 8 /\ Cardinality(Ones(t)) = 2
              /\ \E a \in Ones(t), b \in (1..8) \ Ones(t) : Abs(w.data[a]) = Abs(w.data[b])
              /\ \E b \in (1..8) \ Ones(t) : w.data[b] # 0 /\ heap[model][l].weight.data[b] = 0
\* the stages of a run that prunes, in the order of Pruner.prune and main_worker
StageOrder ==
    <<"score", "build">>
    \o (IF args.reinit = "" THEN <<>> ELSE <<"reinit_begin", "reinit_end">>)
    \o <<"return">>
    \o (IF args.reinit = "" THEN <<>> ELSE <<"main_reinit">>)
    \o <<"finetune">>

\* C16: the stages of a pruning pass are completed in the fixed order scoring
\* and selection, reconstruction, the reinitialization if one is selected, the
\* return of the pruned model, and only then finetuning: at every moment the
\* stages completed so far are an initial part of that order.
C16_StagesInOrder ==
    pruner.st = "obj" =>
        /\ Len(hist.stages) <= Len(StageOrder)
        /\ hist.stages = SubSeq(StageOrder, 1, Len(hist.stages))

C16_Witness ==
    /\ pruner.st = "obj" /\ args.reinit = "approximate_isometry"
    /\ hist.stages = StageOrder
    /\ ft.steps > 0
\* C17: in approximate_isometry_optimize every iteration, with or without a
\* Mask, starts with an optimizer that has taken no step: the optimizer that
\* made the step of an iteration is replaced before the next one.
C17_FreshOptimizerEachIteration ==
    pc = "ai_iter" => ai.optSteps = 0

C17_Witness ==
    /\ pc = "ai_iter" /\ ai.i >= 2 /\ ai.optSteps = 0
    /\ ai.mask.st = "None" /\ ai.shared
PrunePcs ==
    {"prune_score", "prune_build", "prune_reinit", "ai_next", "ai_iter", "prune_return", "post_prune"}

ReinitStages == {"reinit_end", "main_reinit"}

\* C19: with a reinit strategy configured the pruned model is reinitialized
\* exactly once before finetuning starts (never by Pruner.prune() and then by
\* main_worker again), and main_worker attempts it only when a Pruner exists.
C19_ReinitExactlyOnce ==
    /\ Cardinality({i \in 1..Len(hist.stages) : hist.stages[i] \in ReinitStages}) <= 1
    /\ (args.reinit # "" /\ ft.steps > 0) =>
           Cardinality({i \in 1..Len(hist.stages) : hist.stages[i] \in ReinitStages}) = 1
    /\ (pc = "raised" /\ error.site = "main_reinit") => pruner.st = "obj"
\* C20: validate leaves the mode of the model it was given as it found it: when
\* a call has returned, with or without the noisy ensemble and for every number
\* of batches, the training flag of the passed model is what it was at the call.
C20_ModeUnchanged ==
    pc = "v_returned" => vl.training[vl.given] = vl.before
RECURSIVE RunningBest(_, _, _)
\* the maximum of the accuracy handed in and the first k epoch accuracies
RunningBest(given, accs, k) ==
    IF k = 0 THEN given
    ELSE LET r == RunningBest(given, accs, k - 1)
         IN  IF accs[k] > r THEN accs[k] ELSE r

\* the best accuracy is the running maximum, it never falls below what was
\* handed in, and is_best was set exactly on a strict improvement
BestTracked ==
    LET done == Len(fb.is_best)
    IN  /\ fb.best_acc1 = RunningBest(fb.given, fb.acc1_list, done)
        /\ fb.best_acc1 >= fb.given
        /\ \A k \in 1..done :
               fb.is_best[k] = (fb.acc1_list[k] > RunningBest(fb.given, fb.acc1_list, k - 1))

\* the returned triple is the maximum with the losses of the first epoch that
\* attained it
BestTriple ==
    LET n == Len(fb.acc1_list)
        top == RunningBest(fb.given, fb.acc1_list, n)
    IN  /\ fb.best[1] = top
        /\ \E k \in 1..n :
               /\ fb.acc1_list[k] = top
               /\ \A j \in 1..(k - 1) : fb.acc1_list[j] < top
               /\ fb.best[2] = fb.loss_train_list[k]
               /\ fb.best[3] = fb.loss_test_list[k]

\* C21: for every sequence of epoch accuracies, the empty epoch range and the
\* sequences in which no epoch exceeds the accuracy handed in included, finetune
\* returns normally; the triple it returns is the maximum of the accuracy handed
\* in and the epoch accuracies with the losses of the first epoch that attained
\* it; best_acc1 never decreases and is_best is set exactly on strict improvement.
C21_BestReturned ==
    /\ pc # "raised"
    /\ BestTracked
    /\ pc = "fb_returned" => BestTriple
\* the directory a worker's logger.weights_path names: one per node, or one per
\* worker process
WeightsPath(g) == IF wk.shared_path THEN 0 ELSE g

Writers == {g \in DOMAIN wk.w : \E k \in {"just_finished_prune", "lr_change", "end_of_epoch"} :
                                   <<g, k>> \in wk.wrote}

\* C22: with multiprocessing_distributed at most one worker process of a node,
\* the one with rank % ngpus_per_node = 0, ever writes a checkpoint file, of
\* whatever kind (just-finished-prune, learning-rate-change, end-of-epoch), and
\* two workers never have the same checkpoint path open for writing at once.
C22_OneWriterPerNode ==
    wk.multiprocessing_distributed =>
        /\ Cardinality(Writers) <= 1
        /\ \A g \in Writers : wk.w[g].rank % wk.ngpus_per_node = 0
        /\ \A g, h \in DOMAIN wk.w :
               (g # h /\ wk.w[g].writing # <<>> /\ wk.w[g].writing = wk.w[h].writing)
                   => WeightsPath(g) # WeightsPath(h)
====
